---- MODULE Spec2Model ----
(***************************************************************************)
(* Conway's Game of Life on a torus (cgol-cli-rs, src/src/lib.rs): the     *)
(* Universe (width, height, row-major cells), the pattern loader and       *)
(* placer, the generation engine, the shape registry and the poll-interval *)
(* speed controller.                                                       *)
(*                                                                         *)
(* A Universe is a record [width, height, cells]; cells is a sequence, so  *)
(* the Rust index idx is cells[idx + 1].  A call that panics (an index out *)
(* of range) is the result "Panic" and leaves the state it had.            *)
(***************************************************************************)
EXTENDS Integers, Sequences, FiniteSets

VARIABLES uni, call, ret, born, poll_t

vars == <<uni, call, ret, born, poll_t>>

---------------------------------------------------------------------------
(* Bounds of the model *)

\* largest number of cells of a grid that is ticked and toggled freely
MaxCells == 9
\* largest number of characters of a pattern given to from_figur
MaxFigurCells == 4
\* largest target size given to from_figur
MaxWh == 5
\* largest display size given to get_shape (the widest shape is 36)
MaxShapeWh == 37
\* largest shape index given to get_shape (the registry holds 5)
MaxIndex == 6
\* largest side of a grid holding a blinker
MaxBlinkerDim == 6
\* the largest number of whole seconds of a Duration (stands for u64::MAX)
MaxSecs == 3
\* sub-second units per second (stands for NANOS_PER_SEC = 10^9)
NanosPerSec == 10

---------------------------------------------------------------------------
(* Cell and Universe *)

Dead == 0
Alive == 1

Cell == {Dead, Alive}

Universe(width, height, cells) ==
    [width |-> width, height |-> height, cells |-> cells]

\* the state before any Universe is constructed
NoUniverse == Universe(0, 0, <<>>)

Result(r, u) == [ret |-> r, uni |-> u]

toggle(c) == IF c = Dead THEN Alive ELSE Dead

get_index(u, row, col) == row * u.width + col

\* the nine (delta_row, delta_col) pairs of the two for loops, by position
DeltaRows(u) == <<u.height - 1, 0, 1>>
DeltaCols(u) == <<u.width - 1, 0, 1>>

NeighbourIdx(u, row, col, i, j) ==
    get_index(u, (row + DeltaRows(u)[i]) % u.height,
                 (col + DeltaCols(u)[j]) % u.width)

Counted(u) ==
    {p \in (1..3) \X (1..3) : ~(DeltaRows(u)[p[1]] = 0 /\ DeltaCols(u)[p[2]] = 0)}

\* live_neighbour_count with the centre counted too (the continue left out)
live_neighbour_count_self(u, row, col) ==
    IF \E p \in (1..3) \X (1..3) :
          NeighbourIdx(u, row, col, p[1], p[2]) >= Len(u.cells)
    THEN -1
    ELSE Cardinality({p \in (1..3) \X (1..3) :
             u.cells[NeighbourIdx(u, row, col, p[1], p[2]) + 1] = Alive})

\* the sum of the cells at the counted positions; -1 when self.cells[idx]
\* is out of range
live_neighbour_count(u, row, col) ==
    IF \E p \in Counted(u) : NeighbourIdx(u, row, col, p[1], p[2]) >= Len(u.cells)
    THEN -1
    ELSE Cardinality({p \in Counted(u) :
             u.cells[NeighbourIdx(u, row, col, p[1], p[2]) + 1] = Alive})

\* the match with the underpopulation arm taking n <= 2
next_cell_le2(cell, n) ==
    IF cell = Alive /\ n <= 2 THEN Dead
    ELSE IF cell = Alive /\ n = 3 THEN Alive
    ELSE IF cell = Alive /\ n > 3 THEN Dead
    ELSE IF cell = Dead /\ n = 3 THEN Alive
    ELSE cell

\* the match of tick, arm by arm
next_cell(cell, n) ==
    IF cell = Alive /\ n < 2 THEN Dead
    ELSE IF cell = Alive /\ (n = 2 \/ n = 3) THEN Alive
    ELSE IF cell = Alive /\ n > 3 THEN Dead
    ELSE IF cell = Dead /\ n = 3 THEN Alive
    ELSE cell

\* the k-th pass of the nested loops: row in 0..width, col in 0..height
TickRow(u, k) == k \div u.height
TickCol(u, k) == k % u.height

RECURSIVE TickLoop(_, _, _)
TickLoop(u, k, next) ==
    IF k >= u.width * u.height THEN Result("Ok", Universe(u.width, u.height, next))
    ELSE LET row == TickRow(u, k)
             col == TickCol(u, k)
             idx == get_index(u, row, col)
         IN  IF idx >= Len(u.cells) THEN Result("Panic", u)
             ELSE LET n == live_neighbour_count(u, row, col)
                  IN  IF n < 0 THEN Result("Panic", u)
                      ELSE TickLoop(u, k + 1,
                               [next EXCEPT ![idx + 1] = next_cell(u.cells[idx + 1], n)])

tick(u) == TickLoop(u, 0, u.cells)

toggle_cell(u, row, col) ==
    LET idx == get_index(u, row, col)
    IN  IF idx >= Len(u.cells) THEN Result("Panic", u)
        ELSE Result("Ok", [u EXCEPT !.cells[idx + 1] = toggle(@)])

---------------------------------------------------------------------------
(* Pattern loader and placer.  A line is a sequence of one-character       *)
(* strings, a pattern a sequence of lines.  Every character of Chars is    *)
(* one byte long, so String::len() of a line is its Len.                   *)

AliveChars == {"#", "1"}
DeadChars == {"_", " ", "0"}
\* "x" stands for the characters from_vec_str does not recognise
Chars == AliveChars \cup DeadChars \cup {"x"}

\* the cells one line pushes: an unrecognised character pushes nothing
RECURSIVE LineCells(_)
LineCells(line) ==
    IF line = <<>> THEN <<>>
    ELSE LET ch == Head(line)
         IN  (IF ch \in AliveChars THEN <<Alive>>
              ELSE IF ch \in DeadChars THEN <<Dead>>
              ELSE <<>>) \o LineCells(Tail(line))

RECURSIVE AllCells(_)
AllCells(s) == IF s = <<>> THEN <<>> ELSE LineCells(Head(s)) \o AllCells(Tail(s))

\* s[0] panics on a pattern of no lines
from_vec_str(s) ==
    IF Len(s) = 0 THEN Result("Panic", NoUniverse)
    ELSE Result("Ok", Universe(Len(s[1]), Len(s), AllCells(s)))

\* Display::fmt: chunks(self.width) panics when the width is zero
fmt_ok(u) == u.width # 0

AllDead(w, h) == [i \in 1..(w * h) |-> Dead]

\* the inner loop of from_figur: for i in 0..figur.width(), with j running on
RECURSIVE ColLoop(_, _, _, _, _)
ColLoop(u, figur, idx, i, j) ==
    IF i >= figur.width THEN Result("Ok", u)
    ELSE IF j >= Len(figur.cells) \/ idx + i >= Len(u.cells)
         THEN Result("Panic", NoUniverse)
    ELSE ColLoop([u EXCEPT !.cells[idx + i + 1] = figur.cells[j + 1]],
                 figur, idx, i + 1, j + 1)

\* the outer loop: for row in start_row..start_row + figur.height()
RECURSIVE RowLoop(_, _, _, _, _, _)
RowLoop(u, figur, row, end_row, start_col, j) ==
    IF row >= end_row THEN Result("Ok", u)
    ELSE LET r == ColLoop(u, figur, get_index(u, row, start_col), 0, j)
         IN  IF r.ret = "Panic" THEN r
             ELSE RowLoop(r.uni, figur, row + 1, end_row, start_col, j + figur.width)

\* (wh - figur.height()) / 2 and (wh - figur.width()) / 2
start(wh, extent) == (wh - extent) \div 2

from_figur(wh, s) ==
    LET loaded == from_vec_str(s)
        figur  == loaded.uni
    IN  IF loaded.ret = "Panic" \/ ~fmt_ok(figur) THEN Result("Panic", NoUniverse)
        ELSE IF wh < figur.height \/ wh < figur.width
             THEN Result("TooBig", NoUniverse)
        ELSE RowLoop(Universe(wh, wh, AllDead(wh, wh)), figur,
                     start(wh, figur.height), start(wh, figur.height) + figur.height,
                     start(wh, figur.width), 0)

---------------------------------------------------------------------------
(* Built-in generators *)

\* stripes over the inclusive range 0..=width*height
stripes_inclusive(width, height) ==
    Universe(width, height,
        [k \in 1..(width * height + 1) |->
            IF (k - 1) % 2 = 0 \/ (k - 1) % 7 = 0 THEN Alive ELSE Dead])

stripes(width, height) ==
    Universe(width, height,
        [k \in 1..(width * height) |->
            IF (k - 1) % 2 = 0 \/ (k - 1) % 7 = 0 THEN Alive ELSE Dead])

Min(a, b) == IF a <= b THEN a ELSE b

\* the outcomes of fastrand::bool() drawn for a grid: every filling of a
\* grid of at most MaxCells cells; a larger grid repeats MaxCells draws
Draws(width, height) == [1..Min(width * height, MaxCells) -> Cell]

rand(width, height, draw) ==
    Universe(width, height,
        [k \in 1..(width * height) |-> draw[((k - 1) % MaxCells) + 1]])

---------------------------------------------------------------------------
(* Named shapes and the registry *)

\* 3 x 3
featherweigth_spaceship ==
    << <<"_", "_", "#">>,
       <<"#", "_", "#">>,
       <<"_", "#", "#">> >>

\* 12 wide, 8 high
copperhead ==
    << <<"_", "_", "_", "_", "_", "#", "_", "#", "#", "_", "_", "_">>,
       <<"_", "_", "_", "_", "#", "_", "_", "_", "_", "_", "_", "#">>,
       <<"_", "_", "_", "#", "#", "_", "_", "_", "#", "_", "_", "#">>,
       <<"#", "#", "_", "#", "_", "_", "_", "_", "_", "#", "#", "_">>,
       <<"#", "#", "_", "#", "_", "_", "_", "_", "_", "#", "#", "_">>,
       <<"_", "_", "_", "#", "#", "_", "_", "_", "#", "_", "_", "#">>,
       <<"_", "_", "_", "_", "#", "_", "_", "_", "_", "_", "_", "#">>,
       <<"_", "_", "_", "_", "_", "#", "_", "#", "#", "_", "_", "_">> >>

\* 36 wide, 9 high: the repeat() and concat() calls written out
gosper_glider_gun ==
    << <<"_", "_", "_", "_", "_", "_", "_", "_", "_", "_", "_", "_", "_", "_", "_", "_", "_", "_", "_", "_", "_", "_", "_", "_", "#", "_", "_", "_", "_", "_", "_", "_", "_", "_", "_", "_">>,
       <<"_", "_", "_", "_", "_", "_", "_", "_", "_", "_", "_", "_", "_", "_", "_", "_", "_", "_", "_", "_", "_", "_", "#", "_", "#", "_", "_", "_", "_", "_", "_", "_", "_", "_", "_", "_">>,
       <<"_", "_", "_", "_", "_", "_", "_", "_", "_", "_", "_", "_", "#", "#", "_", "_", "_", "_", "_", "_", "#", "#", "_", "_", "_", "_", "_", "_", "_", "_", "_", "_", "_", "_", "#", "#">>,
       <<"_", "_", "_", "_", "_", "_", "_", "_", "_", "_", "_", "#", "_", "_", "_", "#", "_", "_", "_", "_", "#", "#", "_", "_", "_", "_", "_", "_", "_", "_", "_", "_", "_", "_", "#", "#">>,
       <<"#", "#", "_", "_", "_", "_", "_", "_", "_", "_", "#", "_", "_", "_", "_", "_", "#", "_", "_", "_", "#", "#", "_", "_", "_", "_", "_", "_", "_", "_", "_", "_", "_", "_", "_", "_">>,
       <<"#", "#", "_", "_", "_", "_", "_", "_", "_", "_", "#", "_", "_", "_", "#", "_", "#", "#", "_", "_", "_", "_", "#", "_", "#", "_", "_", "_", "_", "_", "_", "_", "_", "_", "_", "_">>,
       <<"_", "_", "_", "_", "_", "_", "_", "_", "_", "_", "#", "_", "_", "_", "_", "_", "#", "_", "_", "_", "_", "_", "_", "_", "#", "_", "_", "_", "_", "_", "_", "_", "_", "_", "_", "_">>,
       <<"_", "_", "_", "_", "_", "_", "_", "_", "_", "_", "_", "#", "_", "_", "_", "#", "_", "_", "_", "_", "_", "_", "_", "_", "_", "_", "_", "_", "_", "_", "_", "_", "_", "_", "_", "_">>,
       <<"_", "_", "_", "_", "_", "_", "_", "_", "_", "_", "_", "_", "#", "#", "_", "_", "_", "_", "_", "_", "_", "_", "_", "_", "_", "_", "_", "_", "_", "_", "_", "_", "_", "_", "_", "_">> >>

SHAPES_N == 5

\* get_shape with the copperhead arm loading the spaceship again
get_shape_copied_arm(wh, i, draw) ==
    IF i > SHAPES_N THEN Result("OutOfRange", NoUniverse)
    ELSE IF i = 0 THEN from_figur(wh, featherweigth_spaceship)
    ELSE IF i = 1 THEN from_figur(wh, featherweigth_spaceship)
    ELSE IF i = 2 THEN from_figur(wh, gosper_glider_gun)
    ELSE IF i = 3 THEN Result("Ok", stripes(wh, wh))
    ELSE IF i = 4 THEN Result("Ok", rand(wh, wh, draw))
    ELSE Result("OutOfRange", NoUniverse)

\* draw is the outcome of the fastrand::bool() calls of the rand arm
get_shape(wh, i, draw) ==
    IF i > SHAPES_N THEN Result("OutOfRange", NoUniverse)
    ELSE IF i = 0 THEN from_figur(wh, featherweigth_spaceship)
    ELSE IF i = 1 THEN from_figur(wh, copperhead)
    ELSE IF i = 2 THEN from_figur(wh, gosper_glider_gun)
    ELSE IF i = 3 THEN Result("Ok", stripes(wh, wh))
    ELSE IF i = 4 THEN Result("Ok", rand(wh, wh, draw))
    ELSE Result("OutOfRange", NoUniverse)

---------------------------------------------------------------------------
(* Speed controller.  A Duration is [secs, nanos] with nanos < NanosPerSec *)
(* and secs <= MaxSecs; the checked operations are those of                *)
(* std::time::Duration and give None when the result is not a Duration.    *)

None == [none |-> TRUE]

Duration(secs, nanos) == [secs |-> secs, nanos |-> nanos]

Durations == [secs : 0..MaxSecs, nanos : 0..(NanosPerSec - 1)]

ZERO == Duration(0, 0)
MAX == Duration(MaxSecs, NanosPerSec - 1)

\* Duration::from_millis(400)
DEF_DUR == Duration(0, (400 * NanosPerSec) \div 1000)

checked_div(d, rhs) ==
    IF rhs = 0 THEN None
    ELSE LET secs        == d.secs \div rhs
             extra_secs  == d.secs % rhs
             nanos       == d.nanos \div rhs
             extra_nanos == d.nanos % rhs
         IN  Duration(secs, nanos + ((extra_secs * NanosPerSec + extra_nanos) \div rhs))

checked_add(d, rhs) ==
    IF d.secs + rhs.secs > MaxSecs THEN None
    ELSE LET nanos == d.nanos + rhs.nanos
         IN  IF nanos < NanosPerSec THEN Duration(d.secs + rhs.secs, nanos)
             ELSE IF d.secs + rhs.secs + 1 > MaxSecs THEN None
             ELSE Duration(d.secs + rhs.secs + 1, nanos - NanosPerSec)

checked_sub(d, rhs) ==
    IF d.secs < rhs.secs THEN None
    ELSE IF d.nanos >= rhs.nanos THEN Duration(d.secs - rhs.secs, d.nanos - rhs.nanos)
    ELSE IF d.secs - rhs.secs < 1 THEN None
    ELSE Duration(d.secs - rhs.secs - 1, d.nanos + NanosPerSec - rhs.nanos)

unwrap_or(opt, default) == IF opt = None THEN default ELSE opt

divisor(big) == IF big THEN 2 ELSE 5

\* faster falling back to DEF_DUR when the quotient is zero
faster_zero_fallback(d, big) ==
    LET q == checked_div(d, divisor(big))
    IN  unwrap_or(checked_sub(d, IF q = ZERO THEN DEF_DUR ELSE q), DEF_DUR)

\* faster with the big divisor 1 instead of 2
faster_div1(d, big) ==
    unwrap_or(checked_sub(d, unwrap_or(checked_div(d, IF big THEN 1 ELSE 5), DEF_DUR)),
              DEF_DUR)

faster(d, big) ==
    unwrap_or(checked_sub(d, unwrap_or(checked_div(d, divisor(big)), DEF_DUR)), DEF_DUR)

\* slower saturating at MAX instead of falling back to DEF_DUR
slower_saturating(d, big) ==
    unwrap_or(checked_add(d, unwrap_or(checked_div(d, divisor(big)), DEF_DUR)), MAX)

slower(d, big) ==
    unwrap_or(checked_add(d, unwrap_or(checked_div(d, divisor(big)), DEF_DUR)), DEF_DUR)

---------------------------------------------------------------------------
(* The state machine.  uni is the Universe, call the last call with its    *)
(* arguments (for tick, the Universe it was called on), ret its outcome,   *)
(* born the constructor that made the grid with the width and height it    *)
(* gave it, poll_t the poll interval.                                      *)

\* the inputs: patterns of one line at least, the lines of equal length
\* (empty lines too) and at most MaxFigurCells characters in all; grids of
\* at most MaxCells cells
Lines(n) == [1..n -> Chars]

Figurs ==
    UNION {[1..ph -> Lines(pw)] :
              <<pw, ph>> \in {d \in (0..MaxFigurCells) \X (1..MaxFigurCells) :
                                 d[1] * d[2] <= MaxFigurCells}}

Dims == {d \in (0..MaxCells) \X (0..MaxCells) : d[1] * d[2] <= MaxCells}

SmallWhs == {wh \in 0..MaxCells : wh * wh <= MaxCells}

Init ==
    /\ uni = NoUniverse
    /\ call = [op |-> "none"]
    /\ ret = "None"
    /\ born = [op |-> "none"]
    /\ poll_t = DEF_DUR

Constructed(op, r) ==
    /\ uni' = r.uni
    /\ ret' = r.ret
    /\ born' = [op |-> op, width |-> r.uni.width, height |-> r.uni.height]
    /\ UNCHANGED poll_t

FromFigur(whs) ==
    /\ born.op = "none"
    /\ \E wh \in whs, s \in Figurs :
          /\ call' = [op |-> "from_figur", wh |-> wh, figur |-> s]
          /\ Constructed("from_figur", from_figur(wh, s))

GetShape(whs) ==
    /\ born.op = "none"
    /\ \E wh \in whs, i \in 0..MaxIndex :
          \E draw \in (IF i = 4 THEN Draws(wh, wh) ELSE {<<>>}) :
             /\ call' = [op |-> "get_shape", wh |-> wh, i |-> i]
             /\ Constructed("get_shape", get_shape(wh, i, draw))

Stripes ==
    /\ born.op = "none"
    /\ \E d \in Dims :
          /\ call' = [op |-> "stripes", width |-> d[1], height |-> d[2]]
          /\ Constructed("stripes", Result("Ok", stripes(d[1], d[2])))

Rand ==
    /\ born.op = "none"
    /\ \E d \in Dims :
          \E draw \in Draws(d[1], d[2]) :
             /\ call' = [op |-> "rand", width |-> d[1], height |-> d[2]]
             /\ Constructed("rand", Result("Ok", rand(d[1], d[2], draw)))

\* a square grid built directly, as a test does: all Dead but the three
\* cells (row, col), (row, col + 1), (row, col + 2)
BlinkerCells(width, height, row, col) ==
    [k \in 1..(width * height) |->
        IF (k - 1) \div width = row /\ (k - 1) % width \in col..(col + 2)
        THEN Alive ELSE Dead]

Blinker ==
    /\ born.op = "none"
    /\ \E side \in 3..MaxBlinkerDim :
          \E row \in 0..(side - 1), col \in 0..(side - 3) :
             /\ call' = [op |-> "blinker", row |-> row, col |-> col]
             /\ uni' = Universe(side, side, BlinkerCells(side, side, row, col))
             /\ ret' = "Ok"
             /\ born' = [op |-> "blinker", width |-> side, height |-> side,
                         row |-> row, col |-> col]
             /\ UNCHANGED poll_t

\* a panic ends the program: nothing is called after it
Tick ==
    /\ ret = "Ok"
    /\ born.op # "poll"
    /\ LET r == tick(uni)
       IN  /\ uni' = r.uni
           /\ ret' = r.ret
    /\ call' = [op |-> "tick", self |-> uni]
    /\ UNCHANGED <<born, poll_t>>

\* toggle_cell with in-range coordinates
ToggleCell ==
    /\ ret = "Ok"
    /\ born.op # "poll"
    /\ \E row \in 0..(uni.height - 1), col \in 0..(uni.width - 1) :
          /\ LET r == toggle_cell(uni, row, col)
             IN  /\ uni' = r.uni
                 /\ ret' = r.ret
          /\ call' = [op |-> "toggle_cell", row |-> row, col |-> col]
    /\ UNCHANGED <<born, poll_t>>

InitSpeed ==
    /\ uni = NoUniverse
    /\ call = [op |-> "none"]
    /\ ret = "Ok"
    /\ poll_t \in Durations
    /\ born = [op |-> "poll", poll_t |-> poll_t]

Faster ==
    /\ born.op = "poll"
    /\ \E big \in BOOLEAN :
          /\ poll_t' = faster(poll_t, big)
          /\ call' = [op |-> "faster", big |-> big, poll_t |-> poll_t]
    /\ UNCHANGED <<uni, ret, born>>

Slower ==
    /\ born.op = "poll"
    /\ \E big \in BOOLEAN :
          /\ poll_t' = slower(poll_t, big)
          /\ call' = [op |-> "slower", big |-> big, poll_t |-> poll_t]
    /\ UNCHANGED <<uni, ret, born>>

\* one grid of at most MaxCells cells, ticked and toggled
Next ==
    \/ FromFigur(SmallWhs)
    \/ GetShape(SmallWhs)
    \/ Stripes
    \/ Rand
    \/ Tick
    \/ ToggleCell

Spec == Init /\ [][Next]_vars

\* from_figur alone, on every pattern and target size of the bounds
SpecFigur == Init /\ [][FromFigur(0..MaxWh)]_vars

\* get_shape alone, up to sizes that hold every shape
SpecShape == Init /\ [][GetShape(0..MaxShapeWh)]_vars

\* a blinker and the generations after it
SpecBlinker == Init /\ [][Blinker \/ Tick]_vars

\* the speed controller from every interval
SpecSpeed == InitSpeed /\ [][Faster \/ Slower]_vars

\* faster calls only
SpecFaster == InitSpeed /\ [][Faster]_vars

---------------------------------------------------------------------------
(* The Life rule as the specification states it *)

CellAt(u, row, col) == u.cells[row * u.width + col + 1]

Offsets == {d \in {-1, 0, 1} \X {-1, 0, 1} : d # <<0, 0>>}

\* the Alive cells among the 8 positions ((row+dr) mod height, (col+dc) mod width)
LifeNeighbours(u, row, col) ==
    Cardinality({d \in Offsets :
        CellAt(u, (row + d[1]) % u.height, (col + d[2]) % u.width) = Alive})

LifeRule(cell, n) ==
    IF cell = Alive /\ (n < 2 \/ n > 3) THEN Dead
    ELSE IF cell = Dead /\ n = 3 THEN Alive
    ELSE cell

\* the next generation of u, every cell from the generation u
LifeStep(u) ==
    [k \in 1..(u.width * u.height) |->
        LET row == (k - 1) \div u.width
            col == (k - 1) % u.width
        IN  LifeRule(CellAt(u, row, col), LifeNeighbours(u, row, col))]

\* the index tick reads and writes in each pass of its loops, in order
TickVisits(u) ==
    [k \in 1..(u.width * u.height) |-> get_index(u, TickRow(u, k - 1), TickCol(u, k - 1))]

VisitsEachOnce(u) ==
    /\ \A k \in 1..(u.width * u.height) : TickVisits(u)[k] < u.width * u.height
    /\ \A k, l \in 1..(u.width * u.height) :
          TickVisits(u)[k] = TickVisits(u)[l] => k = l

---------------------------------------------------------------------------
(* Claims on the grid: specification Spec *)

\* C1: on a square grid (width = height >= 1) one tick() completes and
\* replaces the cells by the Life-rule value of every cell, computed from the
\* generation before the call with the neighbours wrapped around the torus.
C1_TickIsLifeStep ==
    (call.op = "tick" /\ call.self.width = call.self.height /\ call.self.width >= 1)
        => /\ ret = "Ok"
           /\ uni = Universe(call.self.width, call.self.height, LifeStep(call.self))

\* a tick on a 3 x 3 grid in which a Dead cell was born and an Alive cell
\* survived (on this torus every cell neighbours the 8 others)
C1_Witness ==
    /\ call.op = "tick"
    /\ ret = "Ok"
    /\ call.self.width = 3
    /\ call.self.height = 3
    /\ \E k \in 1..9 : call.self.cells[k] = Dead /\ uni.cells[k] = Alive
    /\ \E k \in 1..9 : call.self.cells[k] = Alive /\ uni.cells[k] = Alive

GridOps == {"from_figur", "get_shape", "stripes", "rand"}

\* a constructor of GridOps returned a grid
GridReturned == born.op \in GridOps /\ ~(call.op \in GridOps /\ ret # "Ok")

\* C5: a grid returned by from_figur, get_shape, stripes or rand has, then
\* and after every tick() and in-range toggle_cell() on it, width * height
\* cells and the width and height it was constructed with.
C5_CellsMatchDims ==
    GridReturned
        => /\ Len(uni.cells) = uni.width * uni.height
           /\ uni.width = born.width
           /\ uni.height = born.height

\* a grid toggled after a tick that changed it
C5_Witness ==
    /\ GridReturned
    /\ born.op = "stripes"
    /\ born.width = 2
    /\ born.height = 3
    /\ call.op = "toggle_cell"
    /\ ret = "Ok"
    /\ uni.cells = <<Dead, Dead, Dead, Dead, Dead, Alive>>

\* C9: on a grid of positive width and height with width # height, tick()
\* completes without indexing outside the cells, visits every coordinate
\* exactly once and gives each its Life-rule next state, the row wrapped
\* modulo height and the column modulo width.
C9_NonSquareTick ==
    (call.op = "tick" /\ call.self.width # call.self.height
        /\ call.self.width >= 1 /\ call.self.height >= 1)
        => /\ ret = "Ok"
           /\ VisitsEachOnce(call.self)
           /\ uni = Universe(call.self.width, call.self.height, LifeStep(call.self))

---------------------------------------------------------------------------
(* Claims on the placer: specification SpecFigur *)

Recognised == AliveChars \cup DeadChars

\* the pattern has a first line, and it has a first character
HasCells(s) == Len(s) >= 1 /\ Len(s[1]) >= 1

OverRecognised(s) == \A i \in 1..Len(s) : \A j \in 1..Len(s[i]) : s[i][j] \in Recognised

PatternHeight(s) == Len(s)
PatternWidth(s) == IF Len(s) = 0 THEN 0 ELSE Len(s[1])

\* pattern cell (i, j), rows and columns from 0
PatternCell(s, i, j) == IF s[i + 1][j + 1] \in AliveChars THEN Alive ELSE Dead

\* the wh x wh grid with the pattern at offset (r0, c0) and Dead elsewhere
Centred(wh, s) ==
    LET ph == PatternHeight(s)
        pw == PatternWidth(s)
        r0 == (wh - ph) \div 2
        c0 == (wh - pw) \div 2
    IN  Universe(wh, wh,
            [k \in 1..(wh * wh) |->
                LET row == (k - 1) \div wh
                    col == (k - 1) % wh
                IN  IF row \in r0..(r0 + ph - 1) /\ col \in c0..(c0 + pw - 1)
                    THEN PatternCell(s, row - r0, col - c0)
                    ELSE Dead])

TooBigOrCentred(wh, s) ==
    /\ ret \in {"Ok", "TooBig"}
    /\ ret = "TooBig" <=> (wh < PatternHeight(s) \/ wh < PatternWidth(s))
    /\ ret = "Ok" => uni = Centred(wh, s)

\* C2: for every wh and every pattern of equal-length lines over the
\* recognised characters, from_figur(wh, pattern) returns TooBig exactly when
\* wh < pattern height or wh < pattern width, and otherwise the wh x wh grid
\* with pattern cell (i, j) at ((wh-ph) div 2 + i, (wh-pw) div 2 + j) and
\* every other cell Dead.
C2_FromFigurCentres ==
    (call.op = "from_figur" /\ OverRecognised(call.figur))
        => TooBigOrCentred(call.wh, call.figur)

\* the same for the patterns of one line and one column at least: this holds
FromFigurCentresCells ==
    (call.op = "from_figur" /\ HasCells(call.figur) /\ OverRecognised(call.figur))
        => TooBigOrCentred(call.wh, call.figur)

\* wh = 5 and the single row "###": row 2, columns 1..3 Alive, the rest Dead
FromFigurExample ==
    /\ call.op = "from_figur"
    /\ call.wh = 5
    /\ call.figur = << <<"#", "#", "#">> >>
    /\ ret = "Ok"
    /\ uni.cells = <<Dead, Dead, Dead, Dead, Dead,
                     Dead, Dead, Dead, Dead, Dead,
                     Dead, Alive, Alive, Alive, Dead,
                     Dead, Dead, Dead, Dead, Dead,
                     Dead, Dead, Dead, Dead, Dead>>

\* C3: a pattern of equal-length lines holding a character outside
\* '#', '1', '_', ' ', '0' is loaded without failing: from_figur returns a
\* grid or TooBig for every wh and never aborts on an index out of range.
C3_BadCharNotFatal ==
    (call.op = "from_figur" /\ HasCells(call.figur) /\ ~OverRecognised(call.figur))
        => ret \in {"Ok", "TooBig"}

---------------------------------------------------------------------------
(* Claims on the registry: specification SpecShape *)

ShapeLines(i) ==
    IF i = 0 THEN featherweigth_spaceship
    ELSE IF i = 1 THEN copperhead
    ELSE gosper_glider_gun

\* wh is smaller than the bounding box of shape i in width or height
SmallerThanBox(wh, i) == wh < Len(ShapeLines(i)[1]) \/ wh < Len(ShapeLines(i))

\* C4: get_shape(wh, i) returns OutOfRange exactly when i >= 5; for i = 3
\* and i = 4 it returns a wh x wh grid for every wh; for i in 0..2 its only
\* error is TooBig, returned exactly when wh is smaller than the bounding box
\* of the shape in width or height.
C4_GetShapeErrors ==
    call.op = "get_shape"
        => /\ ret \in {"Ok", "TooBig", "OutOfRange"}
           /\ ret = "OutOfRange" <=> call.i >= 5
           /\ call.i \in {3, 4}
                 => /\ ret = "Ok"
                    /\ uni.width = call.wh
                    /\ uni.height = call.wh
                    /\ Len(uni.cells) = call.wh * call.wh
           /\ call.i \in {0, 1, 2}
                 => (ret = "TooBig" <=> SmallerThanBox(call.wh, call.i))

\* the copperhead (12 x 8) at the smallest size that holds it
C4_Witness ==
    /\ call.op = "get_shape"
    /\ call.i = 1
    /\ call.wh = 12
    /\ ret = "Ok"
    /\ uni.width = 12
    /\ Len(uni.cells) = 144

---------------------------------------------------------------------------
(* Claims on the speed controller: specifications SpecSpeed, SpecFaster *)

\* a Duration in sub-second units
Nanos(d) == d.secs * NanosPerSec + d.nanos

Step(d, big) == Nanos(d) \div (IF big THEN 2 ELSE 5)

\* C6: for every interval d from zero to the maximum and both values of big,
\* faster sets the interval to d - floor(d / divisor) and slower to
\* d + floor(d / divisor), the divisor 2 if big and 5 otherwise; when the sum
\* of slower is not representable the interval becomes 400ms; neither fails.
C6_ProportionalStep ==
    /\ poll_t \in Durations
    /\ call.op = "faster"
          => Nanos(poll_t) = Nanos(call.poll_t) - Step(call.poll_t, call.big)
    /\ call.op = "slower"
          => IF Nanos(call.poll_t) + Step(call.poll_t, call.big) <= Nanos(MAX)
             THEN Nanos(poll_t) = Nanos(call.poll_t) + Step(call.poll_t, call.big)
             ELSE poll_t = DEF_DUR

\* slower on the paused sentinel: the sum is not representable
C6_Witness ==
    /\ call.op = "slower"
    /\ call.poll_t = MAX
    /\ poll_t = DEF_DUR

\* C7 as stated: on the zero interval faster and slower both set the
\* interval to the default of 400ms.
C7_ZeroGoesToDefault ==
    (call.op \in {"faster", "slower"} /\ call.poll_t = ZERO) => poll_t = DEF_DUR

\* C7 amended: on the zero interval faster and slower both leave the interval
\* zero, for both values of big.
C7_ZeroStaysZero ==
    (call.op \in {"faster", "slower"} /\ call.poll_t = ZERO) => poll_t = ZERO

\* faster with the big step called on the zero interval
C7_Witness ==
    /\ call.op = "faster"
    /\ call.big
    /\ call.poll_t = ZERO
    /\ poll_t = ZERO

\* C10: from a strictly positive interval no sequence of faster calls makes
\* the interval zero, and no call of it increases the interval.
C10_FasterStaysPositive ==
    born.poll_t # ZERO
        => /\ poll_t # ZERO
           /\ call.op = "faster" => Nanos(poll_t) <= Nanos(call.poll_t)

\* from 400ms down to the smallest unit, where faster changes nothing more
C10_Witness ==
    /\ born.poll_t = DEF_DUR
    /\ call.op = "faster"
    /\ call.poll_t = Duration(0, 1)
    /\ poll_t = Duration(0, 1)

---------------------------------------------------------------------------
(* Claims on the blinker: specification SpecBlinker *)

Horizontal(b) == Universe(b.width, b.height, BlinkerCells(b.width, b.height, b.row, b.col))

\* the vertical triple through the middle cell (row, col + 1)
Vertical(b) ==
    Universe(b.width, b.height,
        [k \in 1..(b.width * b.height) |->
            IF /\ (k - 1) % b.width = b.col + 1
               /\ (k - 1) \div b.width \in
                     {(b.row - 1) % b.height, b.row, (b.row + 1) % b.height}
            THEN Alive ELSE Dead])

\* every tick() turns the row into the vertical triple and the vertical
\* triple back into the row
Oscillates(b) ==
    /\ uni \in {Horizontal(b), Vertical(b)}
    /\ call.op = "tick"
          => /\ ret = "Ok"
             /\ uni # call.self
             /\ call.self = Horizontal(b) => uni = Vertical(b)
             /\ call.self = Vertical(b) => uni = Horizontal(b)

\* C8 as stated: on every grid that holds it (no minimum size), three
\* consecutive Alive cells of one row oscillate with period 2 under tick().
C8_BlinkerAnyGrid == born.op = "blinker" => Oscillates(born)

\* C8 amended: on every square grid of side 4 or more, three consecutive
\* Alive cells of one row oscillate with period 2 under tick(): one tick gives
\* the vertical triple through the middle cell, two ticks give the start.
C8_BlinkerSquareFrom4 ==
    (born.op = "blinker" /\ born.width = born.height /\ born.width >= 4)
        => Oscillates(born)

\* back at the start after the tick that followed the vertical triple
C8_Witness ==
    /\ born.op = "blinker"
    /\ born.width = 5
    /\ born.height = 5
    /\ call.op = "tick"
    /\ call.self = Vertical(born)
    /\ uni = Horizontal(born)

====
